---- MODULE Spec2Model ----
(***************************************************************************)
(* Roroshetta Sense acquisition coordinator                                *)
(* (custom_components/roroshetta/coordinator.py).                          *)
(*                                                                         *)
(* The module models the poll eligibility gate (_needs_poll), one poll     *)
(* cycle (_async_update: reachability check, up to three connection        *)
(* attempts with backoff, notification wait) and the payload decoder       *)
(* (_parse_data).  One step of the model is one run of the coroutine       *)
(* between two suspension points (await), or one callback of the event     *)
(* loop; the outcome of every transport call is drawn by the environment.  *)
(***************************************************************************)
EXTENDS Integers, Sequences, FiniteSets, TLC

(***************************************************************************)
(* Program constants                                                       *)
(***************************************************************************)
UPDATE_INTERVAL == 60

max_retries == 3

MinPayloadLen == 60

PAIRING_WINDOW_SECONDS == 5

(***************************************************************************)
(* Bounds of the model                                                     *)
(***************************************************************************)
\* number of generated payload contents (besides the fixture)
NumSeeds == 1

\* largest number of trailing bytes after offset 59
MaxExtra == 1

\* Python values: None, an int, or a float
None == [kind |-> "None"]

IntVal(n) == [kind |-> "int", val |-> n]

(***************************************************************************)
(* RoroshettaData: the 14 nullable fields, all None at construction.       *)
(***************************************************************************)
Fields ==
    {"temperature", "heat_index", "humidity", "co2", "tvoc", "pm25", "aqi",
     "grease_filter", "light", "fan", "activity", "alarm_level", "power",
     "uptime"}

RoroshettaData == [f \in Fields |-> None]

(***************************************************************************)
(* A Python float is modelled as the exact rational num/den in lowest      *)
(* terms with den > 0; the binary rounding of the float is not modelled.   *)
(***************************************************************************)
Abs(n) == IF n < 0 THEN -n ELSE n

RECURSIVE GCD(_, _)
GCD(a, b) == IF b = 0 THEN a ELSE GCD(b, a % b)

FloatVal(n, d) ==
    LET g == GCD(Abs(n), d)
    IN  [kind |-> "float", num |-> n \div g, den |-> d \div g]

\* int // int, the floor division the decoder does not use
FloorDiv(a, d) == IntVal(a.val \div d)

\* int / int, Python's true division
TrueDiv(a, d) == FloatVal(a.val, d)

\* int + int
Add(a, k) == IntVal(a.val + k)

\* float - int (also int - int, the result of FloorDiv)
Sub(r, k) ==
    IF r.kind = "int" THEN IntVal(r.val - k)
    ELSE FloatVal(r.num - k * r.den, r.den)

(***************************************************************************)
(* bytes                                                                   *)
(***************************************************************************)
Min(a, b) == IF a < b THEN a ELSE b

\* data[offset : offset + length] of Python: clipped to the end of data
Slice(data, offset, length) ==
    SubSeq(data, offset + 1, Min(offset + length, Len(data)))

\* int.from_bytes(bs, "little")
RECURSIVE from_bytes_little(_)
from_bytes_little(bs) ==
    IF bs = << >> THEN 0
    ELSE Head(bs) + 256 * from_bytes_little(Tail(bs))

RECURSIVE from_bytes_big(_)
from_bytes_big(bs) ==
    IF bs = << >> THEN 0
    ELSE bs[Len(bs)] + 256 * from_bytes_big(SubSeq(bs, 1, Len(bs) - 1))

get_u16_le_wide(data, offset, length) ==
    IntVal(from_bytes_little(Slice(data, offset, length + 1)))

get_u16_le_big(data, offset, length) ==
    IntVal(from_bytes_big(Slice(data, offset, length)))

get_u16_le(data, offset, length) ==
    IntVal(from_bytes_little(Slice(data, offset, length)))

(***************************************************************************)
(* _parse_data: returns the reading held after the call, given the reading *)
(* held before it.  The function is synchronous, so no other callback of   *)
(* the event loop runs between its assignments.                            *)
(***************************************************************************)
Decoded_without_uptime(d, data) ==
    [d EXCEPT
        !.temperature   = Sub(TrueDiv(Add(get_u16_le(data, 0, 2), 10000), 100), 150),
        !.heat_index    = Sub(TrueDiv(Add(get_u16_le(data, 2, 2), 10000), 100), 150),
        !.humidity      = TrueDiv(get_u16_le(data, 4, 2), 100),
        !.aqi           = get_u16_le(data, 10, 2),
        !.pm25          = TrueDiv(get_u16_le(data, 13, 2), 1000),
        !.co2           = get_u16_le(data, 15, 2),
        !.tvoc          = get_u16_le(data, 17, 2),
        !.alarm_level   = get_u16_le(data, 44, 1),
        !.activity      = get_u16_le(data, 45, 1),
        !.power         = get_u16_le(data, 46, 2),
        !.light         = TrueDiv(get_u16_le(data, 53, 1), 30),
        !.fan           = TrueDiv(get_u16_le(data, 56, 1), 30),
        !.grease_filter = get_u16_le(data, 59, 1)]

Decoded(d, data) ==
    [d EXCEPT
        !.temperature   = Sub(TrueDiv(Add(get_u16_le(data, 0, 2), 10000), 100), 150),
        !.heat_index    = Sub(TrueDiv(Add(get_u16_le(data, 2, 2), 10000), 100), 150),
        !.humidity      = TrueDiv(get_u16_le(data, 4, 2), 100),
        !.aqi           = get_u16_le(data, 10, 2),
        !.pm25          = TrueDiv(get_u16_le(data, 13, 2), 1000),
        !.co2           = get_u16_le(data, 15, 2),
        !.tvoc          = get_u16_le(data, 17, 2),
        !.uptime        = get_u16_le(data, 36, 3),
        !.alarm_level   = get_u16_le(data, 44, 1),
        !.activity      = get_u16_le(data, 45, 1),
        !.power         = get_u16_le(data, 46, 2),
        !.light         = TrueDiv(get_u16_le(data, 53, 1), 30),
        !.fan           = TrueDiv(get_u16_le(data, 56, 1), 30),
        !.grease_filter = get_u16_le(data, 59, 1)]

_parse_data_clears_on_short(d, data) ==
    IF Len(data) < MinPayloadLen THEN RoroshettaData ELSE Decoded(d, data)

_parse_data_off_by_one(d, data) ==
    IF Len(data) < MinPayloadLen - 1 THEN d ELSE Decoded(d, data)

_parse_data(d, data) ==
    IF Len(data) < MinPayloadLen THEN d ELSE Decoded(d, data)

(***************************************************************************)
(* Notification payloads delivered by the device                           *)
(***************************************************************************)
\* 60 bytes with raw16(0) = 0x2710 = 10000 and byte 59 = 42
Fixture ==
    [i \in 1..60 |->
        CASE i = 1  -> 16  [] i = 2  -> 39      \* temperature raw 10000
          [] i = 3  -> 51  [] i = 4  -> 29      \* heat_index raw 7475
          [] i = 5  -> 57  [] i = 6  -> 17      \* humidity raw 4409
          [] i = 11 -> 44  [] i = 12 -> 1       \* aqi 300
          [] i = 14 -> 7   [] i = 15 -> 2       \* pm25 raw 519
          [] i = 16 -> 32  [] i = 17 -> 3       \* co2 800
          [] i = 18 -> 5   [] i = 19 -> 1       \* tvoc 261
          [] i = 37 -> 1   [] i = 38 -> 2  [] i = 39 -> 3   \* uptime 197121
          [] i = 45 -> 9   [] i = 46 -> 4
          [] i = 47 -> 200 [] i = 48 -> 1       \* power 456
          [] i = 54 -> 45  [] i = 57 -> 20
          [] i = 60 -> 42
          [] OTHER  -> 0]

Generated(len, k) == [i \in 1..len |-> (k * 53 + i * (7 + 30 * k)) % 256]

PayloadLens ==
    {MinPayloadLen \div 2, MinPayloadLen - 1, MinPayloadLen, MinPayloadLen + MaxExtra}

\* one generated payload of every length, and NumSeeds different contents
\* of the shortest length that is decoded
Payloads ==
    {<< >>, Fixture}
        \cup {Generated(len, 1) : len \in PayloadLens}
        \cup {Generated(MinPayloadLen, k) : k \in 1..NumSeeds}

\* the offsets read by the get_u16_le calls of lines 244-257
AssignedOffsets ==
    (0..5) \cup {10, 11} \cup (13..18) \cup (36..38) \cup (44..47) \cup {53, 56, 59}

\* the payload p with k added to every byte that is not at an assigned
\* offset, cut or extended to MinPayloadLen + extra bytes
Perturbed(p, k, extra) ==
    [i \in 1..(MinPayloadLen + extra) |->
        IF (i - 1) \in AssignedOffsets THEN p[i]
        ELSE IF i <= Len(p) THEN (p[i] + k) % 256
        ELSE (k * i) % 256]

Variants(p) ==
    {Perturbed(p, k, extra) : k \in 1..NumSeeds, extra \in {0, MaxExtra}}

(***************************************************************************)
(* Exceptions and outcomes of transport calls                              *)
(***************************************************************************)
Address == "C0:FF:EE:00:00:01"

\* str(err) of a BleakError, modelled as the set of the substrings the
\* coordinator searches for (compared case-insensitively for "timeout")
BleakMessages == {{"Device not found", "timeout"}, {}}

BleakErrors == {[type |-> "BleakError", msg |-> m] : m \in BleakMessages}

\* any exception that is an Exception but not a BleakError
OtherErrors == {[type |-> "Exception", msg |-> {"unexpected"}]}

CancelledError == [type |-> "CancelledError", msg |-> {}]

NoExc == [type |-> "none", msg |-> {}]

OK == NoExc

\* outcomes of establishing the connection: the messages the coordinator
\* looks for are those of a failed connection
ConnectOutcomes == {OK} \cup BleakErrors \cup OtherErrors

\* outcomes of start_notify, stop_notify and of the disconnect
Outcomes == {OK, [type |-> "BleakError", msg |-> {}]} \cup OtherErrors

\* lines 192-198
ErrorType(err) ==
    IF "ESP_GATT_CONN_FAIL_ESTABLISH" \in err.msg
    THEN "GATT connection establishment failed (device may be busy or out of range)"
    ELSE IF "Device not found" \in err.msg THEN "Device not found"
    ELSE IF "timeout" \in err.msg THEN "Connection timeout"
    ELSE "Bluetooth connection error"

\* UpdateFailed(error_msg) from err, lines 200 and 209
TransportFailed(att, err) ==
    [exc |-> "UpdateFailed", error_type |-> ErrorType(err), address |-> Address,
     attempt |-> att + 1, of |-> max_retries, err |-> err]

\* lines 221 and 225
UnexpectedFailed(att, err) ==
    [exc |-> "UpdateFailed", error_type |-> "Unexpected error polling",
     address |-> Address, attempt |-> att + 1, of |-> max_retries, err |-> err]

\* lines 130-132
UnavailableFailed ==
    [exc |-> "UpdateFailed", error_type |-> "is not available for connection",
     address |-> Address, attempt |-> 0, of |-> max_retries, err |-> NoExc]

Cancelled ==
    [exc |-> "CancelledError", error_type |-> "", address |-> Address,
     attempt |-> 0, of |-> max_retries, err |-> CancelledError]

NoResult == [kind |-> "none"]

Returned(d) == [kind |-> "returned", value |-> d]

Raised(e) == [kind |-> "raised", exc |-> e]

(***************************************************************************)
(* Poll eligibility gate, lines 85-114.  reach is the answer of            *)
(* bluetooth.async_ble_device_from_address, which the callback asks twice  *)
(* without yielding to the event loop in between.                          *)
(***************************************************************************)
CoreStates == {"starting", "running", "stopping"}

\* seconds_since_last_poll: None or a float
Elapsed == {None, FloatVal(UPDATE_INTERVAL - 1, 1), FloatVal(UPDATE_INTERVAL, 1)}

\* float >= int
GreaterEq(r, k) == r.num >= k * r.den

Greater(r, k) == r.num > k * r.den

_needs_poll_strict(state, seconds_since_last_poll, reach) ==
    /\ state = "running"
    /\ \/ seconds_since_last_poll = None
       \/ Greater(seconds_since_last_poll, UPDATE_INTERVAL)
    /\ reach

_needs_poll(state, seconds_since_last_poll, reach) ==
    /\ state = "running"
    /\ \/ seconds_since_last_poll = None
       \/ GreaterEq(seconds_since_last_poll, UPDATE_INTERVAL)
    /\ reach

(***************************************************************************)
(* State                                                                   *)
(***************************************************************************)
VARIABLES
    data,                    \* self.data, the held reading
    _client,                 \* self._client
    _notification_received,  \* self._notification_received (asyncio.Event)
    pc,                      \* where the poll coroutine is suspended
    attempt,                 \* loop variable of the retry loop
    pending,                 \* exception unwinding the "async with" block
    connected,               \* transport: the connection is established
    subscribed,              \* transport: handle_notify is registered
    gate,                    \* last evaluation of _needs_poll
    result,                  \* how the last finished cycle ended
    calls,                   \* transport calls made by the current cycle
    attemptExc,              \* exceptions that ended the attempts of the cycle
    sleeps,                  \* backoff sleeps started by the current cycle
    attemptLog,              \* calls and wait outcomes of the current attempt
    dataAtStart,             \* the held reading when the cycle started
    lastParse,               \* argument and prior reading of the last decode
    paired_once,             \* PairingState.paired_once
    pairing_delay_done,      \* PairingState.pairing_delay_done
    entry_data,              \* the persisted value of DATA_PAIRED_ONCE
    pairingLog               \* pairing delay and persistence writes of the cycle

\* PairingState and its persistence are not part of coordinator.py; they
\* follow sections 3 and 4.4 of the design
pairingVars == <<paired_once, pairing_delay_done, entry_data, pairingLog>>

vars ==
    <<data, _client, _notification_received, pc, attempt, pending, connected,
      subscribed, gate, result, calls, attemptExc, sleeps, attemptLog,
      dataAtStart, lastParse, paired_once, pairing_delay_done, entry_data,
      pairingLog>>

NoPairingLog == [delay |-> 0, persist |-> 0]

NoCalls ==
    [connect |-> 0, pair |-> 0, start_notify |-> 0, stop_notify |-> 0,
     disconnect |-> 0]

\* the BleakClient bound by "as client"
Client == [kind |-> "BleakClient"]

\* __init__, lines 58-83
Init ==
    /\ data = RoroshettaData
    /\ _client = None
    /\ _notification_received = FALSE
    /\ pc = "idle"
    /\ attempt = 0
    /\ pending = NoExc
    /\ connected = FALSE
    /\ subscribed = FALSE
    /\ gate = [evaluated |-> FALSE]
    /\ result = NoResult
    /\ calls = NoCalls
    /\ attemptExc = << >>
    /\ sleeps = << >>
    /\ attemptLog = << >>
    /\ dataAtStart = RoroshettaData
    /\ lastParse = [called |-> FALSE]
    \* paired_once is read from the entry data, where an earlier process
    \* lifetime may have stored it
    /\ entry_data \in BOOLEAN
    /\ paired_once = entry_data
    /\ pairing_delay_done = FALSE
    /\ pairingLog = NoPairingLog

(***************************************************************************)
(* How an exception leaves an attempt (lines 191-225).  These set pc,      *)
(* result, attemptExc and sleeps; the retry loop variable is advanced when *)
(* the backoff sleep returns.                                              *)
(***************************************************************************)
\* wait_time = 2**attempt, line 212
wait_time_doubled(att) == 2 ^ (att + 1)

wait_time(att) == 2 ^ att

\* except BleakError as err, lines 191-218
ExceptBleakError_no_retry(err) ==
    /\ attemptExc' = Append(attemptExc, err)
    /\ result' = Raised(TransportFailed(attempt, err))
    /\ pc' = "idle"
    /\ sleeps' = sleeps

ExceptBleakError_4(err) ==
    /\ attemptExc' = Append(attemptExc, err)
    /\ IF attempt = max_retries
       THEN /\ result' = Raised(TransportFailed(attempt, err))
            /\ pc' = "idle"
            /\ sleeps' = sleeps
       ELSE /\ sleeps' = Append(sleeps, wait_time(attempt))
            /\ pc' = "sleep"
            /\ result' = result

ExceptBleakError(err) ==
    /\ attemptExc' = Append(attemptExc, err)
    /\ IF attempt = max_retries - 1
       THEN /\ result' = Raised(TransportFailed(attempt, err))
            /\ pc' = "idle"
            /\ sleeps' = sleeps
       ELSE /\ sleeps' = Append(sleeps, wait_time(attempt))
            /\ pc' = "sleep"
            /\ result' = result

ExceptException_retry(err) == ExceptBleakError(err)

\* except Exception as err, lines 220-225
ExceptException(err) ==
    /\ attemptExc' = Append(attemptExc, err)
    /\ result' = Raised(UnexpectedFailed(attempt, err))
    /\ pc' = "idle"
    /\ sleeps' = sleeps

\* a CancelledError is a BaseException: neither handler catches it
Propagate(err) ==
    /\ attemptExc' = Append(attemptExc, err)
    /\ result' = Raised(Cancelled)
    /\ pc' = "idle"
    /\ sleeps' = sleeps

Leave(err) ==
    CASE err.type = "BleakError"     -> ExceptBleakError(err)
      [] err.type = "Exception"      -> ExceptException(err)
      [] err.type = "CancelledError" -> Propagate(err)

(***************************************************************************)
(* The scheduler of ActiveBluetoothDataUpdateCoordinator: on an            *)
(* advertisement it asks needs_poll_method and, when the answer is yes and *)
(* no poll is running, starts poll_method (lines 69-77).  The gate is      *)
(* evaluated here between two poll cycles.                                 *)
(***************************************************************************)
NeedsPoll_clears_flag(state, secs, reach) ==
    LET needs_poll == _needs_poll(state, secs, reach)
    IN  /\ pc = "idle"
        /\ gate' = [evaluated |-> TRUE, state |-> state, seconds |-> secs,
                    reachable |-> reach, needs_poll |-> needs_poll]
        /\ pc' = IF needs_poll THEN "scheduled" ELSE "idle"
        /\ result' = NoResult
        /\ calls' = NoCalls
        /\ attemptExc' = << >>
        /\ sleeps' = << >>
        /\ attemptLog' = << >>
        /\ dataAtStart' = data
        /\ lastParse' = [called |-> FALSE]
        /\ pairingLog' = NoPairingLog
        /\ _notification_received' = FALSE
        /\ UNCHANGED <<data, _client, attempt, pending, connected, subscribed,
                       paired_once, pairing_delay_done, entry_data>>

NeedsPoll(state, secs, reach) ==
    LET needs_poll == _needs_poll(state, secs, reach)
    IN  /\ pc = "idle"
        /\ gate' = [evaluated |-> TRUE, state |-> state, seconds |-> secs,
                    reachable |-> reach, needs_poll |-> needs_poll]
        /\ pc' = IF needs_poll THEN "scheduled" ELSE "idle"
        \* the record of the previous cycle is dropped
        /\ result' = NoResult
        /\ calls' = NoCalls
        /\ attemptExc' = << >>
        /\ sleeps' = << >>
        /\ attemptLog' = << >>
        /\ dataAtStart' = data
        /\ lastParse' = [called |-> FALSE]
        /\ pairingLog' = NoPairingLog
        /\ UNCHANGED <<data, _client, _notification_received, attempt, pending,
                       connected, subscribed, paired_once, pairing_delay_done,
                       entry_data>>

\* step 1 of the cycle: the one-time pairing delay is still to be made
PairingDelayDue_ignores_paired == ~pairing_delay_done

PairingDelayDue == ~paired_once /\ ~pairing_delay_done

\* step 1 of the cycle: suspend for the pairing window, then mark the delay
\* consumed
PairingDelay ==
    /\ pc = "scheduled"
    /\ PairingDelayDue
    /\ pairing_delay_done' = TRUE
    /\ pairingLog' = [pairingLog EXCEPT !.delay = @ + PAIRING_WINDOW_SECONDS]
    /\ UNCHANGED <<data, _client, _notification_received, pc, attempt, pending,
                   connected, subscribed, gate, result, calls, attemptExc,
                   sleeps, attemptLog, dataAtStart, lastParse, paired_once,
                   entry_data>>

\* step 5 of the cycle: on success set paired_once and store it
MarkPaired_always_writes ==
    /\ paired_once' = TRUE
    /\ entry_data' = TRUE
    /\ pairingLog' = [pairingLog EXCEPT !.persist = @ + 1]
    /\ pairing_delay_done' = pairing_delay_done

MarkPaired ==
    /\ IF ~paired_once
       THEN /\ paired_once' = TRUE
            /\ entry_data' = TRUE
            /\ pairingLog' = [pairingLog EXCEPT !.persist = @ + 1]
       ELSE UNCHANGED <<paired_once, entry_data, pairingLog>>
    /\ pairing_delay_done' = pairing_delay_done

\* _async_update up to the first await, lines 116-139
AsyncUpdateBegin_connects_first(reach) ==
    /\ pc = "scheduled"
    /\ ~PairingDelayDue
    /\ UNCHANGED pairingVars
    /\ calls' = [calls EXCEPT !.connect = @ + 1, !.pair = @ + 1]
    /\ IF ~reach
       THEN /\ result' = Raised(UnavailableFailed)
            /\ pc' = "idle"
            /\ UNCHANGED <<_notification_received, attempt>>
       ELSE /\ _notification_received' = FALSE
            /\ attempt' = 0
            /\ pc' = "connect"
            /\ result' = result
    /\ gate' = [evaluated |-> FALSE]
    /\ UNCHANGED <<data, _client, pending, connected, subscribed, attemptExc,
                   sleeps, attemptLog, dataAtStart, lastParse>>

AsyncUpdateBegin(reach) ==
    /\ pc = "scheduled"
    /\ ~PairingDelayDue
    /\ UNCHANGED pairingVars
    /\ IF ~reach
       THEN /\ result' = Raised(UnavailableFailed)
            /\ pc' = "idle"
            /\ UNCHANGED <<_notification_received, attempt>>
       ELSE /\ _notification_received' = FALSE
            /\ attempt' = 0
            /\ pc' = "connect"
            /\ result' = result
    \* the gate's answer is consumed once poll_method runs
    /\ gate' = [evaluated |-> FALSE]
    /\ UNCHANGED <<data, _client, pending, connected, subscribed, calls,
                   attemptExc, sleeps, attemptLog, dataAtStart, lastParse>>

\* async with BleakClient(..., timeout=10.0, pair=True) as client, lines 149-152
Connect(out) ==
    /\ pc = "connect"
    /\ UNCHANGED pairingVars
    /\ calls' = [calls EXCEPT !.connect = @ + 1, !.pair = @ + 1]
    /\ attemptLog' = <<"connect">>
    /\ IF out = OK
       THEN /\ _client' = Client
            /\ connected' = TRUE
            \* a new BleakClient has no notification callback yet
            /\ subscribed' = FALSE
            /\ pc' = "start_notify"
            /\ UNCHANGED <<result, attemptExc, sleeps>>
       ELSE /\ Leave(out)
            /\ UNCHANGED <<_client, connected, subscribed>>
    /\ UNCHANGED <<data, _notification_received, attempt, pending, gate,
                   dataAtStart, lastParse>>

\* await client.start_notify(BEEF_CHARACTERISTIC, handle_notify), line 167
StartNotify(out) ==
    /\ pc = "start_notify"
    /\ UNCHANGED pairingVars
    /\ calls' = [calls EXCEPT !.start_notify = @ + 1]
    /\ attemptLog' = Append(attemptLog, "start_notify")
    /\ IF out = OK
       THEN /\ subscribed' = TRUE
            /\ pc' = "wait"
            /\ pending' = pending
       ELSE /\ pending' = out
            /\ pc' = "disconnect"
            /\ subscribed' = subscribed
    /\ UNCHANGED <<data, _client, _notification_received, attempt, connected,
                   gate, result, attemptExc, sleeps, dataAtStart, lastParse>>

\* handle_notify, lines 158-165: decode, then signal the waiter
handle_notify_signal_only(payload) ==
    /\ connected
    /\ UNCHANGED pairingVars
    /\ subscribed
    /\ pc \in {"wait", "stop_notify", "disconnect"}
    /\ data' = data
    /\ _notification_received' = TRUE
    /\ lastParse' = [called |-> TRUE, payload |-> payload, before |-> data,
                     waiting |-> (pc = "wait")]
    /\ UNCHANGED <<_client, pc, attempt, pending, connected, subscribed, gate,
                   result, calls, attemptExc, sleeps, attemptLog, dataAtStart>>

handle_notify(payload) ==
    /\ connected
    /\ UNCHANGED pairingVars
    /\ subscribed
    /\ pc \in {"wait", "stop_notify", "disconnect"}
    /\ data' = _parse_data(data, payload)
    /\ _notification_received' = TRUE
    /\ lastParse' = [called |-> TRUE, payload |-> payload, before |-> data,
                     waiting |-> (pc = "wait")]
    /\ UNCHANGED <<_client, pc, attempt, pending, connected, subscribed, gate,
                   result, calls, attemptExc, sleeps, attemptLog, dataAtStart>>

\* asyncio.wait_for(self._notification_received.wait(), timeout=8.0) returns,
\* lines 175-180
WaitReceived ==
    /\ pc = "wait"
    /\ UNCHANGED pairingVars
    /\ _notification_received
    /\ attemptLog' = Append(attemptLog, "received")
    /\ pc' = "stop_notify"
    /\ UNCHANGED <<data, _client, _notification_received, attempt, pending,
                   connected, subscribed, gate, result, calls, attemptExc,
                   sleeps, dataAtStart, lastParse>>

WaitTimeout_fatal ==
    /\ pc = "wait"
    /\ UNCHANGED pairingVars
    /\ ~_notification_received
    /\ attemptLog' = Append(attemptLog, "timeout")
    /\ pending' = [type |-> "Exception", msg |-> {"timeout"}]
    /\ pc' = "disconnect"
    /\ UNCHANGED <<data, _client, _notification_received, attempt, connected,
                   subscribed, gate, result, calls, attemptExc, sleeps,
                   dataAtStart, lastParse>>

\* await asyncio.wait_for(..., timeout=8.0) without its timeout
WaitTimeout_never ==
    /\ pc = "wait"
    /\ ~_notification_received
    /\ UNCHANGED vars

\* except asyncio.TimeoutError, lines 181-185
WaitTimeout ==
    /\ pc = "wait"
    /\ UNCHANGED pairingVars
    /\ ~_notification_received
    /\ attemptLog' = Append(attemptLog, "timeout")
    /\ pc' = "stop_notify"
    /\ UNCHANGED <<data, _client, _notification_received, attempt, pending,
                   connected, subscribed, gate, result, calls, attemptExc,
                   sleeps, dataAtStart, lastParse>>

\* await client.stop_notify(BEEF_CHARACTERISTIC); break, lines 187-189
StopNotify(out) ==
    /\ pc = "stop_notify"
    /\ UNCHANGED pairingVars
    /\ calls' = [calls EXCEPT !.stop_notify = @ + 1]
    /\ attemptLog' = Append(attemptLog, "stop_notify")
    /\ pc' = "disconnect"
    /\ IF out = OK
       THEN /\ subscribed' = FALSE
            /\ pending' = NoExc
       ELSE /\ subscribed' = subscribed
            /\ pending' = out
    /\ UNCHANGED <<data, _client, _notification_received, attempt, connected,
                   gate, result, attemptExc, sleeps, dataAtStart, lastParse>>

\* break leaves the retry loop, line 189; then lines 227-231
Finish_no_break ==
    /\ UNCHANGED <<attemptExc, sleeps>>
    /\ IF attempt = max_retries - 1
       THEN /\ _client' = None
            /\ result' = Returned(data)
            /\ pc' = "idle"
       ELSE /\ _client' = _client
            /\ result' = result
            /\ pc' = "sleep"

Finish ==
    /\ _client' = None
    /\ result' = Returned(data)
    /\ pc' = "idle"
    /\ UNCHANGED <<attemptExc, sleeps>>

\* BleakClient.__aexit__ (end of the async with block), then either the
\* handlers or, after break, the end of the cycle
Disconnect(out) ==
    /\ pc = "disconnect"
    /\ calls' = [calls EXCEPT !.disconnect = @ + 1]
    /\ attemptLog' = Append(attemptLog, "disconnect")
    /\ connected' = FALSE
    /\ pending' = NoExc
    /\ LET exc == IF out = OK THEN pending ELSE out
       IN  IF exc = NoExc
           THEN /\ Finish
                /\ MarkPaired
           ELSE /\ Leave(exc)
                /\ _client' = _client
                /\ UNCHANGED pairingVars
    /\ UNCHANGED <<data, _notification_received, attempt, subscribed, gate,
                   dataAtStart, lastParse>>

\* await asyncio.sleep(wait_time) returns, line 218; next iteration, line 139
SleepDone_skips_attempt ==
    /\ pc = "sleep"
    /\ UNCHANGED pairingVars
    /\ attempt' = max_retries - 1
    /\ pc' = "connect"
    /\ UNCHANGED <<data, _client, _notification_received, pending, connected,
                   subscribed, gate, result, calls, attemptExc, sleeps,
                   attemptLog, dataAtStart, lastParse>>

SleepDone ==
    /\ pc = "sleep"
    /\ UNCHANGED pairingVars
    /\ attempt' = attempt + 1
    /\ pc' = "connect"
    /\ UNCHANGED <<data, _client, _notification_received, pending, connected,
                   subscribed, gate, result, calls, attemptExc, sleeps,
                   attemptLog, dataAtStart, lastParse>>

\* the host cancels the poll task while it is suspended in an await: the
\* awaited call was started and CancelledError is raised at the await
Cancel ==
    /\ pc \in {"connect", "start_notify", "wait", "stop_notify", "disconnect",
               "sleep"}
    /\ UNCHANGED pairingVars
    /\ IF pc \in {"connect", "start_notify", "stop_notify", "disconnect"}
       THEN /\ calls' = [calls EXCEPT ![pc] = @ + 1]
            /\ attemptLog' = IF pc = "connect" THEN <<"connect">>
                              ELSE Append(attemptLog, pc)
       ELSE /\ calls' = calls
            /\ attemptLog' = IF pc = "wait" THEN Append(attemptLog, "cancelled")
                              ELSE attemptLog
    /\ IF pc \in {"start_notify", "wait", "stop_notify"}
       THEN /\ pending' = CancelledError
            /\ pc' = "disconnect"
            /\ UNCHANGED <<result, attemptExc, sleeps>>
       ELSE /\ pending' = NoExc
            /\ IF pc = "sleep"
               THEN /\ result' = Raised(Cancelled)
                    /\ pc' = "idle"
                    /\ UNCHANGED <<attemptExc, sleeps>>
               ELSE Propagate(CancelledError)
    /\ UNCHANGED <<data, _client, _notification_received, attempt, connected,
                   subscribed, gate, dataAtStart, lastParse>>

Next ==
    \/ \E state \in CoreStates, secs \in Elapsed, reach \in BOOLEAN :
            NeedsPoll(state, secs, reach)
    \/ PairingDelay
    \/ \E reach \in BOOLEAN : AsyncUpdateBegin(reach)
    \/ \E out \in ConnectOutcomes : Connect(out)
    \/ \E out \in Outcomes : StartNotify(out)
    \/ \E payload \in Payloads : handle_notify(payload)
    \/ WaitReceived
    \/ WaitTimeout
    \/ \E out \in Outcomes : StopNotify(out)
    \/ \E out \in Outcomes : Disconnect(out)
    \/ SleepDone
    \/ Cancel

Spec == Init /\ [][Next]_vars

(***************************************************************************)
(* The steps of the poll coroutine.  The event loop resumes a coroutine    *)
(* whose awaited call has completed, and every awaited call completes: the *)
(* connect gives up after timeout=10.0 (line 150), the wait after          *)
(* timeout=8.0 (line 176), the sleep after wait_time seconds (line 218),   *)
(* and start_notify, stop_notify and the release of the connection return  *)
(* or raise.  The advertisements (NeedsPoll), the notifications and the    *)
(* cancellation are up to the environment and get no fairness.             *)
(***************************************************************************)
Step ==
    \/ PairingDelay
    \/ \E reach \in BOOLEAN : AsyncUpdateBegin(reach)
    \/ \E out \in ConnectOutcomes : Connect(out)
    \/ \E out \in Outcomes : StartNotify(out)
    \/ WaitReceived
    \/ WaitTimeout
    \/ \E out \in Outcomes : StopNotify(out)
    \/ \E out \in Outcomes : Disconnect(out)
    \/ SleepDone

LiveSpec == Spec /\ WF_vars(Step)

TypeOK ==
    /\ pc \in {"idle", "scheduled", "connect", "start_notify", "wait",
               "stop_notify", "disconnect", "sleep"}
    /\ attempt \in 0..(max_retries - 1)
    /\ _client \in {None, Client}
    /\ _notification_received \in BOOLEAN
    /\ connected \in BOOLEAN
    /\ subscribed \in BOOLEAN
    /\ paired_once \in BOOLEAN
    /\ pairing_delay_done \in BOOLEAN
    /\ entry_data = paired_once

(***************************************************************************)
(* Properties                                                              *)
(***************************************************************************)
\* the bytes of a payload at 0-based offsets, least significant first
Raw8(p, off) == p[off + 1]

Raw16(p, off) == p[off + 1] + 256 * p[off + 2]

Raw24(p, off) == p[off + 1] + 256 * p[off + 2] + 65536 * p[off + 3]

\* the value v is the number n / d
IsRatio(v, n, d) ==
    IF v.kind = "float" THEN v.num * d = n * v.den
    ELSE v.kind = "int" /\ v.val * d = n

Unscaled(d, p) ==
    /\ d.aqi = IntVal(Raw16(p, 10))
    /\ d.co2 = IntVal(Raw16(p, 15))
    /\ d.tvoc = IntVal(Raw16(p, 17))
    /\ d.uptime = IntVal(Raw24(p, 36))
    /\ d.alarm_level = IntVal(Raw8(p, 44))
    /\ d.activity = IntVal(Raw8(p, 45))
    /\ d.power = IntVal(Raw16(p, 46))
    /\ d.grease_filter = IntVal(Raw8(p, 59))

Scaled(d, p) ==
    /\ IsRatio(d.temperature, Raw16(p, 0) - 5000, 100)
    /\ IsRatio(d.heat_index, Raw16(p, 2) - 5000, 100)
    /\ IsRatio(d.humidity, Raw16(p, 4), 100)
    /\ IsRatio(d.pm25, Raw16(p, 13), 1000)
    /\ IsRatio(d.light, Raw8(p, 53), 30)
    /\ IsRatio(d.fan, Raw8(p, 56), 30)

ShortParse == lastParse.called /\ Len(lastParse.payload) < 60

FullParse == lastParse.called /\ Len(lastParse.payload) >= 60

\* C1: a payload shorter than 60 bytes leaves all 14 fields of the held
\* reading as they were before the call of _parse_data.
C1_ShortPayloadIsNoOp ==
    ShortParse => \A f \in Fields : data[f] = lastParse.before[f]

\* C1 witness: a 59-byte payload was decoded against a populated reading.
C1_Witness ==
    /\ ShortParse
    /\ Len(lastParse.payload) = 59
    /\ lastParse.before # RoroshettaData
    /\ data = lastParse.before

\* C2: the held reading is either all null or all of its 14 fields come from
\* one payload of at least 60 bytes.
C2_AllOrNothing ==
    \/ \A f \in Fields : data[f] = None
    \/ \E p \in Payloads :
          /\ Len(p) >= 60
          /\ Unscaled(data, p)
          /\ Scaled(data, p)

\* C2 witness: a populated reading was overwritten by a different payload.
C2_Witness ==
    /\ FullParse
    /\ lastParse.before # RoroshettaData
    /\ lastParse.before # data
    /\ Unscaled(data, lastParse.payload)

\* C3: after decoding a payload of at least 60 bytes the unscaled fields are
\* the little-endian unsigned integers at their offsets.
C3_UnscaledFields ==
    FullParse => Unscaled(data, lastParse.payload)

\* C3 witness: a decoded payload whose two-byte fields have a non-zero high
\* byte different from the low byte, and byte 59 = 42.
C3_Witness ==
    /\ FullParse
    /\ lastParse.payload[12] # 0
    /\ lastParse.payload[12] # lastParse.payload[11]
    /\ data.aqi = IntVal(300)
    /\ data.grease_filter = IntVal(42)
    /\ data.uptime = IntVal(197121)

\* C4: after decoding a payload of at least 60 bytes the scaled fields are
\* the exact quotients of the table (no truncation); raw 10000 at offset 0
\* gives temperature 50.0.
C4_ScaledFields ==
    FullParse =>
        /\ Scaled(data, lastParse.payload)
        /\ Raw16(lastParse.payload, 0) = 10000
              => data.temperature = [kind |-> "float", num |-> 50, den |-> 1]

\* C4 witness: the fixture (raw temperature 10000) was decoded and its
\* heat_index raw value 7475 is not a multiple of 100: heat_index = 24.75.
C4_Witness ==
    /\ FullParse
    /\ Raw16(lastParse.payload, 0) = 10000
    /\ Raw16(lastParse.payload, 2) % 100 # 0
    /\ data.heat_index = [kind |-> "float", num |-> 99, den |-> 4]
    /\ data.temperature.kind = "float"

\* C5: the gate answers yes exactly when the host is running, no poll was
\* made before or at least 60 seconds passed, and the device is reachable.
C5_NeedsPoll ==
    gate.evaluated =>
        (gate.needs_poll <=>
            /\ gate.state = "running"
            /\ \/ gate.seconds.kind = "None"
               \/ gate.seconds.num >= 60 * gate.seconds.den
            /\ gate.reachable)

\* C5 witness: running, reachable, exactly 60 seconds elapsed: poll.
C5_Witness ==
    /\ gate.evaluated
    /\ gate.state = "running"
    /\ gate.reachable
    /\ gate.seconds = [kind |-> "float", num |-> 60, den |-> 1]
    /\ gate.needs_poll

\* every attempt of the cycle so far ended with a BleakError, three times
ThreeTransportFailures ==
    /\ Len(attemptExc) = 3
    /\ \A i \in 1..3 : attemptExc[i].type = "BleakError"

\* C6: a cycle never makes a 4th connection attempt, and after three
\* BleakError failures it has made exactly 3 and has failed with an
\* UpdateFailed carrying the third error and the device address.
C6_ThreeAttemptsThenFail ==
    /\ calls.connect <= 3
    /\ ThreeTransportFailures =>
          /\ pc = "idle"
          /\ calls.connect = 3
          /\ result.kind = "raised"
          /\ result.exc.exc = "UpdateFailed"
          /\ result.exc.err = attemptExc[3]
          /\ result.exc.address = Address

\* C6 witness: three failures, the third with another error than the second.
C6_Witness ==
    /\ ThreeTransportFailures
    /\ attemptExc[3] # attemptExc[2]
    /\ result.kind = "raised"

CycleOver == pc = "idle" /\ result.kind # "none"

\* C8: no attempt follows an exception-free attempt: the cycle returns the
\* held reading exactly when its last attempt raised nothing, so the number
\* of connection attempts is the index of the first exception-free attempt.
C8_StopAtFirstSuccess ==
    /\ calls.connect \in {Len(attemptExc), Len(attemptExc) + 1}
    /\ CycleOver =>
          /\ result.kind = "returned" <=> calls.connect = Len(attemptExc) + 1
          /\ result.kind = "returned" => result.value = data

\* C8 witness: first attempt failed with a BleakError, second succeeded.
C8_Witness ==
    /\ CycleOver
    /\ result.kind = "returned"
    /\ Len(attemptExc) = 1
    /\ attemptExc[1].type = "BleakError"
    /\ calls.connect = 2

TimedOut == \E i \in 1..Len(attemptLog) : attemptLog[i] = "timeout"

InLog(e) == \E i \in 1..Len(attemptLog) : attemptLog[i] = e

\* C9 as stated: a cycle whose last attempt timed out returns the reading
\* it held before the cycle.
C9_Original ==
    (CycleOver /\ result.kind = "returned" /\ TimedOut)
        => result.value = dataAtStart

\* C9 amended: after a wait timeout the attempt unsubscribes and
\* disconnects; if neither raises, the cycle returns with no further
\* attempt, and the reading it returns is the one held before the cycle
\* unless a notification arrived after the timeout, while the subscription
\* was still active.
C9_TimeoutIsNotFailure ==
    TimedOut =>
        /\ pc # "stop_notify" => InLog("stop_notify")
        /\ pc \notin {"stop_notify", "disconnect"} => InLog("disconnect")
        /\ (CycleOver /\ calls.connect = Len(attemptExc) + 1) =>
              /\ result.kind = "returned"
              /\ attemptLog = <<"connect", "start_notify", "timeout",
                                "stop_notify", "disconnect">>
              /\ ~lastParse.called => result.value = dataAtStart
              /\ lastParse.called =>
                    /\ ~lastParse.waiting
                    /\ result.value =
                          _parse_data(lastParse.before, lastParse.payload)

\* C9 witness: a cycle that timed out and returned the unchanged reading,
\* which was populated.
C9_Witness ==
    /\ CycleOver
    /\ TimedOut
    /\ result.kind = "returned"
    /\ ~lastParse.called
    /\ result.value = dataAtStart
    /\ dataAtStart # RoroshettaData

C11_UnavailableNoTransport ==
    result = Raised(UnavailableFailed) =>
        /\ pc = "idle"
        /\ calls = NoCalls
        /\ attemptLog = << >>
        /\ attemptExc = << >>
        /\ sleeps = << >>

\* C11 witness: a cycle of a coordinator that already holds a reading and a
\* client handle from earlier cycles ended on the absent device.
C11_Witness ==
    /\ result = Raised(UnavailableFailed)
    /\ pc = "idle"
    /\ data # RoroshettaData
    /\ _client = Client
    /\ calls = NoCalls

\* C12: on every exit path of an attempt each successful subscription is
\* unsubscribed before the connection is released, so at the end of every
\* cycle no notification subscription is active.
C12_ResourcesReleased ==
    CycleOver => ~subscribed

\* C13: paired_once only ever changes from false to true, in the step that
\* ends a cycle by returning (timed-out wait included), and exactly then it
\* is written once to the entry data; a cycle that returns leaves it true; a
\* cycle started with it true and a cycle that raises write nothing.
C13_PairedOnce ==
    [][/\ (paired_once' # paired_once \/ pairingLog'.persist > pairingLog.persist)
            => /\ ~paired_once
               /\ paired_once'
               /\ entry_data'
               /\ pairingLog'.persist = pairingLog.persist + 1
               /\ pairingLog'.persist = 1
               /\ pc' = "idle"
               /\ result'.kind = "returned"
       /\ (result'.kind = "returned" /\ result.kind # "returned")
            => (paired_once' /\ entry_data')
       /\ entry_data' = paired_once']_vars

\* C13 witness: the first cycle that completed did so after its wait timed
\* out with no reading decoded, and stored the flag.
C13_Witness ==
    /\ CycleOver
    /\ result.kind = "returned"
    /\ InLog("timeout")
    /\ data = RoroshettaData
    /\ paired_once
    /\ entry_data
    /\ pairingLog.persist = 1

\* C14: in a cycle started with paired_once true no connection attempt asks
\* the transport to pair.
C14_PairOnlyIfNeverPaired ==
    (paired_once /\ pc # "idle") => calls.pair = 0

CycleFailed ==
    /\ CycleOver
    /\ result.kind = "raised"
    /\ result.exc.exc = "UpdateFailed"

\* C16 as stated: a cycle fails to its caller only after three failed
\* transport attempts or on an unexpected error; an unavailable device, a
\* wait timeout and a short payload never make the cycle fail.
C16_Original ==
    CycleFailed =>
        \/ ThreeTransportFailures
        \/ /\ attemptExc # << >>
           /\ attemptExc[Len(attemptExc)].type = "Exception"

\* C16 amended: a cycle fails to its caller in exactly three cases: the
\* device is unavailable at the reachability check (no transport call
\* made), three transport attempts failed, or an unexpected error was
\* raised; a wait timeout or a short payload alone never makes it fail.
C16_PropagationPolicy ==
    CycleFailed =>
        \/ /\ result = Raised(UnavailableFailed)
           /\ attemptExc = << >>
           /\ calls = NoCalls
        \/ /\ ThreeTransportFailures
           /\ result = Raised(TransportFailed(max_retries - 1, attemptExc[3]))
        \/ /\ attemptExc # << >>
           /\ attemptExc[Len(attemptExc)].type = "Exception"
           /\ result = Raised(UnexpectedFailed(Len(attemptExc) - 1,
                                               attemptExc[Len(attemptExc)]))

\* C16 witness: a cycle in which a wait timed out and a short payload was
\* decoded failed all the same, by exhausting its three attempts on
\* transport errors.
C16_Witness ==
    /\ CycleFailed
    /\ ThreeTransportFailures
    /\ TimedOut
    /\ lastParse.called
    /\ Len(lastParse.payload) < MinPayloadLen

InCycle == pc \notin {"idle", "scheduled"}

\* C19: each notification is decoded into the held reading before the
\* waiter is signalled, one notification after the other: whenever the flag
\* is set in a cycle the reading already is the decode of the last payload
\* delivered, applied to the reading the payload before it left behind, and
\* the reading a cycle returns is that of the last applied decode.
C19_DecodeBeforeSignal ==
    /\ []((InCycle /\ _notification_received)
            => /\ lastParse.called
               /\ data = _parse_data(lastParse.before, lastParse.payload))
    /\ []((CycleOver /\ result.kind = "returned")
            => /\ result.value = data
               /\ data = IF lastParse.called
                         THEN _parse_data(lastParse.before, lastParse.payload)
                         ELSE dataAtStart)
    /\ [][/\ (lastParse' # lastParse /\ lastParse'.called)
                => /\ lastParse'.before = data
                   /\ data' = _parse_data(data, lastParse'.payload)
                   /\ _notification_received'
          /\ (pc = "wait" /\ pc' = "stop_notify" /\ _notification_received)
                => /\ lastParse.called
                   /\ data' = _parse_data(lastParse.before, lastParse.payload)]_vars

\* C19 witness: a full payload and then a short one arrived in one cycle;
\* the cycle returned the reading of the full payload, which differs from
\* the one held at its start.
C19_Witness ==
    /\ CycleOver
    /\ result.kind = "returned"
    /\ lastParse.called
    /\ Len(lastParse.payload) < MinPayloadLen
    /\ lastParse.before # dataAtStart
    /\ dataAtStart # RoroshettaData
    /\ result.value = lastParse.before

\* C20: the held reading is all-null at construction and is changed only by
\* the decode of a payload of at least 60 bytes, which populates every
\* field; so no field returns to null, and a cycle in which nothing was
\* decoded (failed, timed out or cancelled) holds the reading it started
\* with, and a short payload leaves the reading as it found it.
C20_ReadingOnlyDecoded ==
    /\ data = RoroshettaData
    /\ []((\E f \in Fields : data[f] # None) => (\A f \in Fields : data[f] # None))
    /\ [](data = IF ~lastParse.called THEN dataAtStart
                 ELSE IF Len(lastParse.payload) < 60 THEN lastParse.before
                 ELSE Decoded(lastParse.before, lastParse.payload))
    /\ [][data' # data
            => /\ lastParse'.called
               /\ Len(lastParse'.payload) >= 60
               /\ lastParse'.before = data
               /\ data' = Decoded(data, lastParse'.payload)
               /\ \A f \in Fields : data'[f] # None]_vars

\* C20 witness: a cycle that started with a populated reading received only
\* a short payload and was then cancelled; the reading is the one it
\* started with.
C20_Witness ==
    /\ CycleOver
    /\ result = Raised(Cancelled)
    /\ lastParse.called
    /\ Len(lastParse.payload) < MinPayloadLen
    /\ data # RoroshettaData
    /\ data = dataAtStart

\* C21: whenever no attempt is in progress (between two cycles, before the
\* first attempt of a cycle, during a backoff sleep) the coordinator holds
\* no client handle.
C21_NoClientOutsideAttempt ==
    pc \in {"idle", "scheduled", "sleep"} => _client = None

AgreeOnAssigned(p, q) == \A i \in AssignedOffsets : p[i + 1] = q[i + 1]

\* C22: a payload of at least 60 bytes that agrees with the decoded payload
\* on offsets 0-5, 10-11, 13-18, 36-38, 44-47, 53, 56 and 59 decodes to the
\* same reading in all 14 fields, whatever its other bytes and its length
\* (compared for every payload decoded while the cycle waits).
C22_UnassignedIgnored ==
    (pc = "wait" /\ lastParse.called /\ Len(lastParse.payload) >= 60) =>
        \A q \in (Payloads \cup Variants(lastParse.payload)) \ {lastParse.payload} :
            (Len(q) >= 60 /\ AgreeOnAssigned(lastParse.payload, q))
                => \A f \in Fields :
                      _parse_data(lastParse.before, q)[f] = data[f]

\* C22 witness: the decoded fixture and a longer payload that differs from
\* it at unassigned offsets 6, 12 and 58 and in its trailing bytes, with
\* the same reading.
C22_Witness ==
    /\ pc = "wait"
    /\ lastParse.called
    /\ lastParse.payload = Fixture
    /\ \E q \in Variants(Fixture) :
          /\ Len(q) > Len(Fixture)
          /\ q[7] # Fixture[7]
          /\ q[13] # Fixture[13]
          /\ q[59] # Fixture[59]
          /\ AgreeOnAssigned(Fixture, q)
          /\ _parse_data(RoroshettaData, q) = data

SameInputs(g, h) ==
    /\ h.state = g.state
    /\ h.seconds = g.seconds
    /\ h.reachable = g.reachable

\* C23: the gate's answer is a function of the host state, the elapsed
\* seconds and the reachability alone: asked again with the inputs it
\* recorded it gives the answer it recorded, and two calls in a row with the
\* same inputs agree; a call leaves the held reading, the notification
\* flag, the client handle, the connection and the pairing state as they
\* were and makes no transport call.
C23_GateIsPure ==
    /\ [](gate.evaluated
            => gate.needs_poll
                 = _needs_poll(gate.state, gate.seconds, gate.reachable))
    /\ [][/\ (gate.evaluated /\ gate'.evaluated /\ SameInputs(gate, gate'))
                => gate'.needs_poll = gate.needs_poll
          /\ (pc = "idle")
                => /\ gate'.evaluated
                   /\ pc' \in {"idle", "scheduled"}
                   /\ data' = data
                   /\ _notification_received' = _notification_received
                   /\ _client' = _client
                   /\ connected' = connected
                   /\ subscribed' = subscribed
                   /\ paired_once' = paired_once
                   /\ pairing_delay_done' = pairing_delay_done
                   /\ entry_data' = entry_data
                   /\ calls' = NoCalls
                   /\ attemptLog' = << >>]_vars

\* C23 witness: the gate answered no for a coordinator that holds a
\* reading, a set notification flag and a client handle from an earlier
\* cycle, 59 seconds after the last poll.
C23_Witness ==
    /\ pc = "idle"
    /\ gate.evaluated
    /\ ~gate.needs_poll
    /\ gate.state = "running"
    /\ gate.reachable
    /\ gate.seconds = FloatVal(59, 1)
    /\ data # RoroshettaData
    /\ _notification_received
    /\ _client = Client

\* C24: the notification wait of an attempt completes as received only if a
\* notification was delivered during that attempt's wait; a signal left by
\* an earlier attempt of the cycle, whose last notification arrived after
\* its wait had ended, does not satisfy it.
C24_FreshSignalOnly ==
    [][(pc = "wait" /\ pc' = "stop_notify" /\ _notification_received)
            => (lastParse.called /\ lastParse.waiting)]_vars

====
